---- MODULE Spec2Model ----
(***************************************************************************)
(* The extraction pipelines of the data-collection repository:             *)
(*   - run_spell_scraper.main -> SpellScraper.__init__ -> SpellScraper.run *)
(*     -> scrape_spells -> _scrape_with_browser / direct_json_fetch ->     *)
(*     provide_manual_extraction_instructions                              *)
(*   - BestiaryScraper.__init__ -> BestiaryScraper.run -> scrape_monsters  *)
(* One invocation is a sequential control flow; pc is its position.  Every *)
(* call into Playwright or the file system is a step whose outcome the     *)
(* environment chooses.                                                    *)
(***************************************************************************)
EXTENDS Integers, Sequences, FiniteSets, TLC

(* ------------------------------ bounds -------------------------------- *)

\* Longest entity list the site exposes to one strategy.
MaxSpells == 2
\* Longest SCRAPING_SPELL_LIMIT string.
MaxLimitLen == 1

(* --------------------------- Python values ---------------------------- *)

\* Python's None, and a value that is not None.
None == [none |-> TRUE]
Some(v) == [none |-> FALSE, val |-> v]

Min(a, b) == IF a <= b THEN a ELSE b
Max(a, b) == IF a >= b THEN a ELSE b

\* s[:n] of a Python list.
PySliceTo(s, n) ==
    IF n >= 0 THEN SubSeq(s, 1, Min(n, Len(s)))
    ELSE SubSeq(s, 1, Max(0, Len(s) + n))

\* Mutant: the limit is tested with `is not None`.
LimitIsSet(l) == l # None

\* Truth value of an Optional[int]: None and 0 are false.
LimitTruthy(l) == l # None /\ l.val # 0

IsPrefix(s, t) == Len(s) <= Len(t) /\ SubSeq(t, 1, Len(s)) = s

(* ------------------------ SCRAPING_SPELL_LIMIT ------------------------ *)

Digits == <<"0", "1", "2">>
OtherChars == {"-", "x"}
Chars == {Digits[i] : i \in 1..Len(Digits)} \cup OtherChars

\* The environment variable: unset, or a string of at most MaxLimitLen characters.
LimitStrs == {None} \cup {Some(s) : s \in UNION {[1..k -> Chars] : k \in 0..MaxLimitLen}}

DigitVal(c) == (CHOOSE i \in 1..Len(Digits) : Digits[i] = c) - 1

\* str.isdigit(): non-empty and every character a digit.
IsDigit(s) == Len(s) > 0 /\ \A i \in 1..Len(s) : s[i] \in {Digits[j] : j \in 1..Len(Digits)}

RECURSIVE IntOf(_)
\* int(s) of a digit string.
IntOf(s) == IF s = <<>> THEN 0 ELSE 10 * IntOf(SubSeq(s, 1, Len(s) - 1)) + DigitVal(s[Len(s)])

\* limit = int(limit_str) if limit_str and limit_str.isdigit() else None
ParseLimit(ls) ==
    IF ls # None /\ ls.val # <<>> /\ IsDigit(ls.val) THEN Some(IntOf(ls.val)) ELSE None

\* The limits a caller passes to run(limit).
LimitArgs == {ParseLimit(ls) : ls \in LimitStrs}

(* ------------------------------ the site ------------------------------ *)

SpellNames == <<"Acid Splash", "Fireball", "Shield", "Wish">>

\* The entity lists a strategy can obtain: the first n entities of the site, as
\* mapped records (in-page extraction) or raw entities (a JSON endpoint).
SiteLists(shape) ==
    {[i \in 1..n |-> [name |-> SpellNames[i], shape |-> shape]] : n \in 0..MaxSpells}

GotoOutcomes == {"ok", "raise", "no_response", "not_ok"}

\* One candidate endpoint: the request raises, the response is unusable, or the
\* payload parses and contributes records.
EndpointOutcomes ==
    {[kind |-> "raise", recs |-> <<>>], [kind |-> "skip", recs |-> <<>>]}
        \cup {[kind |-> "parsed", recs |-> r] : r \in SiteLists("raw")}

possible_endpoints == <<"data/spells/index.json", "data/spells.json", "data/spells/spells-phb.json">>

ManualOutcomes == {"ok", "fail_makedirs", "fail_js", "fail_readme"}

(* ---------------------- JSON served by the endpoints ------------------ *)

\* The values json.loads returns: list, dict (keys and values in iteration
\* order), str (its characters), int, None.
JList(items) == [type |-> "list", items |-> items]
JDict(keys, vals) == [type |-> "dict", keys |-> keys, vals |-> vals]
JStr(chars) == [type |-> "str", chars |-> chars]
JInt(n) == [type |-> "int", n |-> n]
JNull == [type |-> "null"]

\* `k in d` and d[k] of a dict.
HasKey(d, k) == \E i \in 1..Len(d.keys) : d.keys[i] = k
Get(d, k) == d.vals[CHOOSE i \in 1..Len(d.keys) : d.keys[i] = k]

SpellTexts == <<<<"A", "i", "d">>, <<"B", "a", "n", "e">>, <<"M", "a", "z", "e">>,
                <<"W", "i", "s", "h">>>>

\* The i-th spell of the site as the JSON files hold it.
Entity(i) == JDict(<<"name", "source", "level">>, <<JStr(SpellTexts[i]), JStr(<<"P", "H", "B">>), JInt(i)>>)

\* An object of the JSON files that is not a spell: it has no 'source'.
NotAnEntity == JDict(<<"name", "version">>, <<JStr(<<"m", "e", "t", "a">>), JInt(1)>>)

\* The first n spells, n up to MaxSpells.
EntityLists == {[i \in 1..n |-> Entity(i)] : n \in 0..MaxSpells}

\* The shapes in which a file presents the spells es: the list itself; an object
\* holding the list under 'spell', under 'spells', under both, or under 'items';
\* an object whose values are the spells (among values that are not spells).
PayloadShapes == {"list", "spell", "spells", "both", "items", "values"}

Present(shape, es) ==
    CASE shape = "list" -> JList(es)
      [] shape = "spell" -> JDict(<<"spell">>, <<JList(es)>>)
      [] shape = "spells" -> JDict(<<"spells">>, <<JList(es)>>)
      [] shape = "both" -> JDict(<<"spells", "spell">>, <<JList(<<NotAnEntity>>), JList(es)>>)
      [] shape = "items" -> JDict(<<"items">>, <<JList(es)>>)
      [] shape = "values" ->
            JDict(<<"_meta">> \o [i \in 1..Len(es) |-> Get(es[i], "name").chars[1]] \o <<"count">>,
                  <<NotAnEntity>> \o es \o <<JInt(Len(es))>>)

\* Files whose wrapped value is not a list, and a file that is a bare null.
OddPayloads ==
    {JDict(<<"spell">>, <<JDict(<<"PHB", "XGE">>, <<JInt(1), JInt(2)>>)>>),
     JDict(<<"spell">>, <<JInt(0)>>),
     JDict(<<"spells">>, <<JNull>>),
     JNull}

Payloads == {Present(sh, es) : sh \in PayloadShapes, es \in EntityLists} \cup OddPayloads

\* What one request of direct_json_fetch meets: page.goto raises (a timeout
\* included), returns no response or one that is not OK, an OK response of
\* another content type, a body that is not JSON, or a body that parses.
EndpointResponses ==
    {[kind |-> k, body |-> JNull] : k \in {"raise", "no_response", "not_ok", "bad_type", "bad_json"}}
        \cup {[kind |-> "json", body |-> b] : b \in Payloads}

Strategies == {"browser", "direct", "bestiary"}

(* ------------------------------- state -------------------------------- *)

VARIABLES
    scraper,        \* which entry point runs: "spell" or "bestiary"
    pc,             \* position of the control flow
    limit_str,      \* os.getenv('SCRAPING_SPELL_LIMIT')
    limit,          \* the limit argument of run()
    spell_data,     \* scrape_spells' and _scrape_with_browser's local
    monster_data,   \* scrape_monsters' local
    all_spells,     \* direct_json_fetch's accumulator
    endpoint,       \* index of the candidate endpoint direct_json_fetch is at
    returned,       \* per strategy: None, or Some(the records it returned)
    launched,       \* strategies whose chromium.launch() returned a browser
    closed,         \* strategies whose browser.close() was called
    dataFile,       \* None, or Some(records) written to spells.json / monsters.json
    manual,         \* manual-fallback files written: subset of {"js", "readme"}
    log,            \* error-level and operator-facing lines logged so far
    faults,         \* failures met so far: "makedirs", "save", "manual" (file system),
                    \* "browser", "direct", "bestiary" (a failed step of that strategy)
    raised,         \* functions an exception has propagated out of
    exitStatus,     \* None while running, Some(0) on return, Some(1) on sys.exit(1)
    other,          \* a second invocation, observing the same environment
    fetched,        \* the requests direct_json_fetch made: <<[url, response], ...>>
    call,           \* a call of one page helper: the function and what the page does
    result,         \* None until the call is over, then Some(what it returned or raised)
    loggers,        \* logging's registry: per name None, or Some([level, handlers])
    logDirs,        \* the log directories that exist
    setups          \* per name, how many calls of setup_logger returned its logger

vars == <<scraper, pc, limit_str, limit, spell_data, monster_data, all_spells, endpoint,
          returned, launched, closed, dataFile, manual, log, faults, raised, exitStatus,
          other, fetched, call, result, loggers, logDirs, setups>>

\* The registry of the logging module and the log directories: process-wide
\* state.  The specifications of a run record what is logged in `log` and leave
\* the registry as it is.
logVars == <<loggers, logDirs, setups>>

\* The names setup_logger is called with.
LoggerNames == {"spell", "bestiary", "spell_scraping_process"}

\* No logger has been asked for yet.
NoLoggers ==
    /\ loggers = [n \in LoggerNames |-> None]
    /\ logDirs = {}
    /\ setups = [n \in LoggerNames |-> 0]

runVars == <<scraper, pc, limit_str, limit, spell_data, monster_data, all_spells, endpoint,
             returned, launched, closed, dataFile, manual, log, faults, raised, exitStatus>>

\* The invocation's state as one value; the steps below map such a value to the
\* next one.
RunState ==
    [scraper |-> scraper, pc |-> pc, limit_str |-> limit_str, limit |-> limit,
     spell_data |-> spell_data, monster_data |-> monster_data, all_spells |-> all_spells,
     endpoint |-> endpoint, returned |-> returned, launched |-> launched, closed |-> closed,
     dataFile |-> dataFile, manual |-> manual, log |-> log, faults |-> faults,
     raised |-> raised, exitStatus |-> exitStatus]

\* The state of a fresh invocation of entry point sc with environment string ls
\* and run() argument l.
FreshRun(sc, ls, l) ==
    [scraper |-> sc, pc |-> "main", limit_str |-> ls, limit |-> l,
     spell_data |-> <<>>, monster_data |-> <<>>, all_spells |-> <<>>,
     endpoint |-> 0, returned |-> [x \in Strategies |-> None], launched |-> {}, closed |-> {},
     dataFile |-> None, manual |-> {}, log |-> {}, faults |-> {}, raised |-> {},
     exitStatus |-> None]

\* The invocations that can be started: main() of run_spell_scraper with any
\* SCRAPING_SPELL_LIMIT, BestiaryScraper().run(limit) with any limit.
Invocations ==
    {FreshRun("spell", ls, None) : ls \in LimitStrs}
        \cup {FreshRun("bestiary", None, l) : l \in LimitArgs}

Logged(s, line) == [s EXCEPT !.log = @ \cup {line}]

Fault(s, f) == [s EXCEPT !.faults = @ \cup {f}]

(* ------------------- run_spell_scraper.main, __init__ ----------------- *)

\* SpellScraper.__init__ / BestiaryScraper.__init__: os.makedirs(output_dir); a
\* failure is logged and re-raised to main.
Construct(s, ok) ==
    IF ok
    THEN [s EXCEPT !.pc = IF s.scraper = "spell" THEN "main_limit" ELSE "monsters_launch"]
    ELSE [Logged(Fault(s, "makedirs"), "Failed to create output directory")
            EXCEPT !.raised = @ \cup {"__init__"}, !.pc = "main_except"]

\* main: limit from the environment, then scraper.run(limit=limit).
MainParseLimit(s) == [s EXCEPT !.limit = ParseLimit(s.limit_str), !.pc = "run"]

\* run -> scrape_spells: spell_data = [], then _scrape_with_browser().
RunStart(s) == [s EXCEPT !.spell_data = <<>>, !.pc = "browser_launch"]

(* ------------------------ _scrape_with_browser ------------------------ *)

\* _scrape_with_browser returns v to scrape_spells, which assigns it to spell_data.
BrowserReturn(s, v) ==
    [s EXCEPT !.spell_data = v, !.returned["browser"] = Some(v), !.pc = "scrape_check"]

\* Mutant: the outer handler logs and re-raises instead of returning [].
BrowserExceptReraise(s) ==
    [Logged(Fault(s, "browser"), "Error during browser scraping")
        EXCEPT !.raised = @ \cup {"_scrape_with_browser"}, !.pc = "scrape_except"]

\* _scrape_with_browser's outer `except Exception`: log, return [].
BrowserExcept(s) ==
    BrowserReturn(Logged(Fault(s, "browser"), "Error during browser scraping"), <<>>)

\* sync_playwright() and p.chromium.launch().
BrowserLaunch(s, ok) ==
    IF ok THEN [s EXCEPT !.launched = @ \cup {"browser"}, !.pc = "browser_setup"]
    ELSE BrowserExcept(s)

\* new_context, add_init_script, new_page, set_extra_http_headers, route.
BrowserSetup(s, ok) ==
    IF ok THEN [s EXCEPT !.pc = "browser_goto"] ELSE BrowserExcept(s)

\* browser.close() in _scrape_with_browser.
BrowserCloseCalled(s) == [s EXCEPT !.closed = @ \cup {"browser"}]

\* Mutant: a non-OK response is logged and the readiness steps run all the same.
BrowserGotoIgnoreStatus(s, o) ==
    CASE o = "ok" -> [s EXCEPT !.pc = "browser_consent"]
      [] o = "raise" ->
            BrowserReturn(BrowserCloseCalled(
                Logged(Fault(s, "browser"), "Error during page load")), <<>>)
      [] OTHER ->
            [Logged(Fault(s, "browser"), "Failed to load page") EXCEPT !.pc = "browser_consent"]

\* page.goto(spell_url): a missing or non-OK response, or an exception, is logged,
\* the browser is closed and [] returned.
BrowserGoto(s, o) ==
    CASE o = "ok" -> [s EXCEPT !.pc = "browser_consent"]
      [] o = "raise" ->
            BrowserReturn(BrowserCloseCalled(
                Logged(Fault(s, "browser"), "Error during page load")), <<>>)
      [] OTHER ->
            BrowserReturn(BrowserCloseCalled(
                Logged(Fault(s, "browser"), "Failed to load page")), <<>>)

\* handle_cookie_consent(page): swallows its own errors.
BrowserConsent(s) == [s EXCEPT !.pc = "browser_scripts"]

\* SpellScraper.wait_for_critical_scripts(page): swallows its own errors.
BrowserScripts(s) == [s EXCEPT !.pc = "browser_human"]

\* simulate_human_behavior(page): swallows its own errors.
BrowserHuman(s) == [s EXCEPT !.pc = "browser_netidle"]

\* page.wait_for_load_state('networkidle'): a timeout is a warning, ignored.
BrowserNetIdle(s, ok) == [s EXCEPT !.pc = "browser_wait_js"]

\* wait_for_js_data(page, timeout=30).
BrowserWaitJs(s, ready) ==
    [s EXCEPT !.pc = IF ready THEN "browser_extract" ELSE "browser_force"]

\* debug_page_state(page), then the forced data-load page.evaluate, which is not
\* guarded: its exception reaches the outer handler.
BrowserForceLoad(s, ok) ==
    IF ok THEN [s EXCEPT !.pc = "browser_wait_js2"] ELSE BrowserExcept(s)

\* wait_for_js_data(page, timeout=20): the result is not used.
BrowserWaitJs2(s, ready) == [s EXCEPT !.pc = "browser_extract"]

\* Mutant: the limit is pushed into the in-page extraction.
BrowserExtractLimited(s, out) ==
    LET cut == IF s.limit # None /\ s.limit.val > 0 THEN PySliceTo(out, s.limit.val) ELSE out
    IN  [s EXCEPT !.spell_data = cut,
                  !.pc = IF cut = <<>> THEN "browser_dump" ELSE "browser_close"]

\* spell_data = extract_spell_data(page); an empty result goes on to the debug dump.
BrowserExtract(s, out) ==
    [s EXCEPT !.spell_data = out,
              !.pc = IF out = <<>> THEN "browser_dump" ELSE "browser_close"]

\* debug_page_state, os.makedirs(debug), page.screenshot, page_html.html.
BrowserDump(s, ok) ==
    IF ok THEN [s EXCEPT !.pc = "browser_close"] ELSE BrowserExcept(s)

\* browser.close(); return spell_data.
BrowserClose(s, ok) ==
    IF ok THEN BrowserReturn(BrowserCloseCalled(s), s.spell_data)
    ELSE BrowserExcept(BrowserCloseCalled(s))

(* --------------------------- direct_json_fetch ------------------------ *)

\* Mutant: the test is inverted (`if spell_data:`).
BrowserFailedInverted(sd) == sd # <<>>

\* Mutant: the direct fetch always runs.
BrowserFailedAlways(sd) == TRUE

\* `if not spell_data:` after the browser strategy: the direct fetch is needed.
BrowserFailed(sd) == sd = <<>>

\* Mutant: an empty browser result retries the browser strategy.
ScrapeCheckRetry(s) ==
    [s EXCEPT !.pc = IF BrowserFailed(s.spell_data) THEN "browser_launch" ELSE "scrape_limit"]

\* scrape_spells after _scrape_with_browser returned: fall through to
\* direct_json_fetch() only on an empty result.
ScrapeCheck(s) ==
    [s EXCEPT !.pc = IF BrowserFailed(s.spell_data) THEN "direct_launch" ELSE "scrape_limit"]

\* direct_json_fetch returns v; scrape_spells assigns it to spell_data.
DirectReturn(s, v) ==
    [s EXCEPT !.spell_data = v, !.returned["direct"] = Some(v), !.pc = "scrape_limit"]

\* direct_json_fetch's outer `except Exception`: log, return [].
DirectExcept(s) ==
    DirectReturn(Logged(Fault(s, "direct"), "Error during direct JSON fetch"), <<>>)

\* sync_playwright() and p.chromium.launch(headless=True).
DirectLaunch(s, ok) ==
    IF ok THEN [s EXCEPT !.launched = @ \cup {"direct"}, !.pc = "direct_setup"]
    ELSE DirectExcept(s)

\* new_context, new_page; all_spells = [].
DirectSetup(s, ok) ==
    IF ok THEN [s EXCEPT !.all_spells = <<>>, !.endpoint = 1, !.pc = "direct_endpoint"]
    ELSE DirectExcept(s)

\* Mutant: the duck-typing test looks for 'name' only.
LooksLikeSpellByName(value) == value.type = "dict" /\ HasKey(value, "name")

\* isinstance(value, dict) and 'name' in value and 'source' in value
LooksLikeSpell(value) == value.type = "dict" /\ HasKey(value, "name") /\ HasKey(value, "source")

\* all_spells.extend(v): the elements of a list, the keys of a dict (each key a
\* str, kept whole), the characters of a str; anything else raises TypeError.
Extend(v) ==
    CASE v.type = "list" -> [raised |-> FALSE, recs |-> v.items]
      [] v.type = "dict" -> [raised |-> FALSE, recs |-> [i \in 1..Len(v.keys) |-> JStr(<<v.keys[i]>>)]]
      [] v.type = "str" -> [raised |-> FALSE, recs |-> [i \in 1..Len(v.chars) |-> JStr(<<v.chars[i]>>)]]
      [] OTHER -> [raised |-> TRUE, recs |-> <<>>]

\* What a parsed payload adds to all_spells ("Handle different formats").
EndpointRecords(json_data) ==
    IF json_data.type = "list" THEN Extend(json_data)
    ELSE IF json_data.type = "dict"
         THEN IF HasKey(json_data, "spell") THEN Extend(Get(json_data, "spell"))
              ELSE IF HasKey(json_data, "spells") THEN Extend(Get(json_data, "spells"))
              ELSE [raised |-> FALSE, recs |-> SelectSeq(json_data.vals, LooksLikeSpell)]
         ELSE [raised |-> FALSE, recs |-> <<>>]

\* One request as the loop body sees it: an exception (of page.goto, or the
\* TypeError above) is caught per endpoint; an unusable response adds nothing.
EndpointAnswer(r) ==
    IF r.kind = "raise" THEN [kind |-> "raise", recs |-> <<>>]
    ELSE IF r.kind # "json" THEN [kind |-> "skip", recs |-> <<>>]
    ELSE IF EndpointRecords(r.body).raised THEN [kind |-> "raise", recs |-> <<>>]
    ELSE [kind |-> "parsed", recs |-> EndpointRecords(r.body).recs]

\* Mutant: the loop has no break; every endpoint is requested.
DirectEndpointNoBreak(s, o) ==
    LET found == s.all_spells \o o.recs
    IN  IF s.endpoint = Len(possible_endpoints)
        THEN [s EXCEPT !.all_spells = found, !.pc = "direct_close"]
        ELSE [s EXCEPT !.all_spells = found, !.endpoint = @ + 1]

\* One iteration of `for endpoint in possible_endpoints`: the records the payload
\* yields are appended; a non-empty all_spells breaks out of the loop; a failure
\* of this endpoint is a warning and the next one is tried.
DirectEndpoint(s, o) ==
    LET found == s.all_spells \o o.recs
    IN  IF found # <<>> \/ s.endpoint = Len(possible_endpoints)
        THEN [s EXCEPT !.all_spells = found, !.pc = "direct_close"]
        ELSE [s EXCEPT !.all_spells = found, !.endpoint = @ + 1]

\* browser.close(); return all_spells.
DirectClose(s, ok) ==
    LET c == [s EXCEPT !.closed = @ \cup {"direct"}]
    IN  IF ok THEN DirectReturn(c, s.all_spells) ELSE DirectExcept(c)

(* ------------------------ scrape_spells, the rest --------------------- *)

\* Mutant: the slice is one short (spell_data[:limit - 1]).
ApplyLimitOffByOne(sd, l) ==
    IF LimitTruthy(l) /\ Len(sd) > l.val THEN PySliceTo(sd, l.val - 1) ELSE sd

\* if limit and len(spell_data) > limit: spell_data = spell_data[:limit]
ApplyLimit(sd, l) ==
    IF LimitTruthy(l) /\ Len(sd) > l.val THEN PySliceTo(sd, l.val) ELSE sd

ScrapeLimit(s) == [s EXCEPT !.spell_data = ApplyLimit(s.spell_data, s.limit), !.pc = "scrape_save"]

\* `if spell_data:` guarding the write of spells.json.
ShouldSave(sd) == sd # <<>>

\* Write spells.json if there is data, else log the failure; scrape_spells then
\* falls off its end.  A failing write enters scrape_spells' handler.
ScrapeSave(s, ok) ==
    IF ShouldSave(s.spell_data)
    THEN IF ok
         THEN [Logged(s, "Scraping completed") EXCEPT !.dataFile = Some(s.spell_data),
                                                      !.pc = "run_check"]
         ELSE [Fault(s, "save") EXCEPT !.pc = "scrape_except"]
    ELSE [Logged(s, "Failed to extract any spell data") EXCEPT !.pc = "run_check"]

\* Mutant: the handler logs and returns instead of re-raising.
ScrapeExceptSwallow(s) == [Logged(s, "Fatal error during scraping") EXCEPT !.pc = "run_check"]

\* scrape_spells' handler: log and re-raise.
ScrapeExcept(s) ==
    [Logged(s, "Fatal error during scraping")
        EXCEPT !.raised = @ \cup {"scrape_spells"}, !.pc = "run_except"]

(* ------------------------------ SpellScraper.run ---------------------- *)

\* The value scrape_spells returns to run: it has no return statement.
ScrapeSpellsResult(sd) == None

\* `if spells and len(spells) > 0:` in run.
RunHasData(spells) == spells # None /\ Len(spells.val) > 0

\* run after scrape_spells returned.  With data, run would save to
\* self.output_file, an attribute __init__ never sets, and the AttributeError
\* reaches run's handler; without, it goes on to the manual fallback.
RunCheck(s) ==
    IF RunHasData(ScrapeSpellsResult(s.spell_data))
    THEN [Logged(s, "Successfully scraped") EXCEPT !.pc = "run_except"]
    ELSE [Logged(s, "Automated scraping failed or returned no data") EXCEPT !.pc = "run_manual"]

\* provide_manual_extraction_instructions: os.makedirs(manual), write
\* extract_spells.js, write README.md; nothing is caught.
RunManual(s, o) ==
    CASE o = "ok" -> [s EXCEPT !.manual = @ \cup {"js", "readme"}, !.pc = "run_message"]
      [] o = "fail_readme" ->
            [Fault(s, "manual") EXCEPT !.manual = @ \cup {"js"}, !.pc = "run_except"]
      [] OTHER -> [Fault(s, "manual") EXCEPT !.pc = "run_except"]

\* run logs "MANUAL EXTRACTION REQUIRED" and its five steps, then returns.
RunMessage(s) == [Logged(s, "MANUAL EXTRACTION REQUIRED") EXCEPT !.pc = "main_done"]

\* run's handler (SpellScraper.run and BestiaryScraper.run): log and re-raise.
RunExcept(s) ==
    [Logged(s, "Error during scraping process")
        EXCEPT !.raised = @ \cup {"run"}, !.pc = "main_except"]

\* main: run returned; the process ends with status 0.
MainDone(s) ==
    [Logged(s, "Completed Successfully") EXCEPT !.exitStatus = Some(0), !.pc = "exited"]

\* main's `except Exception` handler: log and sys.exit(1).
MainExcept(s) ==
    [Logged(s, "Fatal error in scraping process") EXCEPT !.exitStatus = Some(1), !.pc = "exited"]

(* -------------------- BestiaryScraper.scrape_monsters ----------------- *)

\* An exception anywhere in scrape_monsters reaches its handler.
MonstersRaise(s) == [Fault(s, "bestiary") EXCEPT !.pc = "monsters_except"]

\* sync_playwright() and p.chromium.launch().
MonstersLaunch(s, ok) ==
    IF ok THEN [s EXCEPT !.launched = @ \cup {"bestiary"}, !.pc = "monsters_setup"]
    ELSE MonstersRaise(s)

\* new_context, add_init_script, new_page, set_extra_http_headers.
MonstersSetup(s, ok) == IF ok THEN [s EXCEPT !.pc = "monsters_goto"] ELSE MonstersRaise(s)

\* page.goto(bestiary_url): a missing or non-OK response raises.
MonstersGoto(s, o) == IF o = "ok" THEN [s EXCEPT !.pc = "monsters_scripts"] ELSE MonstersRaise(s)

\* BestiaryScraper.wait_for_critical_scripts: logs and re-raises any failure.
MonstersScripts(s, ok) ==
    IF ok THEN [s EXCEPT !.pc = "monsters_extract"]
    ELSE MonstersRaise(Logged(s, "Error waiting for scripts"))

\* monster_data = extract_monster_data(page).
MonstersExtract(s, out) ==
    [s EXCEPT !.monster_data = out, !.returned["bestiary"] = Some(out), !.pc = "monsters_limit"]

\* Mutant: an unset limit defaults to one record (monster_data[:limit or 1]).
ApplyLimitMonstersDefault(md, l) == PySliceTo(md, IF LimitTruthy(l) THEN l.val ELSE 1)

\* if limit: monster_data = monster_data[:limit]
ApplyLimitMonsters(md, l) == IF LimitTruthy(l) THEN PySliceTo(md, l.val) ELSE md

MonstersLimit(s) ==
    [s EXCEPT !.monster_data = ApplyLimitMonsters(s.monster_data, s.limit), !.pc = "monsters_save"]

\* scrape_monsters has no guard on the write of monsters.json.
ShouldSaveMonsters(md) == TRUE

\* json.dump(monster_data) to monsters.json.
MonstersSave(s, ok) ==
    IF ShouldSaveMonsters(s.monster_data)
    THEN IF ok
         THEN [Logged(s, "Scraping completed") EXCEPT !.dataFile = Some(s.monster_data),
                                                      !.pc = "monsters_close"]
         ELSE MonstersRaise(Fault(s, "save"))
    ELSE [s EXCEPT !.pc = "monsters_close"]

\* browser.close(), the last statement inside the `with`.
MonstersClose(s, ok) ==
    LET c == [s EXCEPT !.closed = @ \cup {"bestiary"}]
    IN  IF ok THEN [c EXCEPT !.pc = "main_done"] ELSE MonstersRaise(c)

\* scrape_monsters' handler: log and re-raise.
MonstersExcept(s) ==
    [Logged(s, "Fatal error during scraping")
        EXCEPT !.raised = @ \cup {"scrape_monsters"}, !.pc = "run_except"]

(* --------------------------- specifications --------------------------- *)

\* The variables take the values of s.
Commit(s) ==
    /\ scraper' = s.scraper
    /\ pc' = s.pc
    /\ limit_str' = s.limit_str
    /\ limit' = s.limit
    /\ spell_data' = s.spell_data
    /\ monster_data' = s.monster_data
    /\ all_spells' = s.all_spells
    /\ endpoint' = s.endpoint
    /\ returned' = s.returned
    /\ launched' = s.launched
    /\ closed' = s.closed
    /\ dataFile' = s.dataFile
    /\ manual' = s.manual
    /\ log' = s.log
    /\ faults' = s.faults
    /\ raised' = s.raised
    /\ exitStatus' = s.exitStatus

\* The step at position label that takes the invocation to state next.  The second
\* invocation, when it is at the same position, takes the same step with the same
\* answer of the environment, which takes it to state twin.
Do(label, next, twin) ==
    /\ pc = label
    /\ Commit(next)
    /\ other' = IF other.pc = label THEN twin ELSE other
    /\ UNCHANGED <<fetched, call, result, logVars>>

Next ==
    \/ \E ok \in BOOLEAN : Do("main", Construct(RunState, ok), Construct(other, ok))
    \/ Do("main_limit", MainParseLimit(RunState), MainParseLimit(other))
    \/ Do("run", RunStart(RunState), RunStart(other))
    \/ \E ok \in BOOLEAN : Do("browser_launch", BrowserLaunch(RunState, ok), BrowserLaunch(other, ok))
    \/ \E ok \in BOOLEAN : Do("browser_setup", BrowserSetup(RunState, ok), BrowserSetup(other, ok))
    \/ \E o \in GotoOutcomes : Do("browser_goto", BrowserGoto(RunState, o), BrowserGoto(other, o))
    \/ Do("browser_consent", BrowserConsent(RunState), BrowserConsent(other))
    \/ Do("browser_scripts", BrowserScripts(RunState), BrowserScripts(other))
    \/ Do("browser_human", BrowserHuman(RunState), BrowserHuman(other))
    \/ \E ok \in BOOLEAN : Do("browser_netidle", BrowserNetIdle(RunState, ok), BrowserNetIdle(other, ok))
    \/ \E ready \in BOOLEAN : Do("browser_wait_js", BrowserWaitJs(RunState, ready), BrowserWaitJs(other, ready))
    \/ \E ok \in BOOLEAN : Do("browser_force", BrowserForceLoad(RunState, ok), BrowserForceLoad(other, ok))
    \/ \E ready \in BOOLEAN : Do("browser_wait_js2", BrowserWaitJs2(RunState, ready), BrowserWaitJs2(other, ready))
    \/ \E out \in SiteLists("mapped") : Do("browser_extract", BrowserExtract(RunState, out), BrowserExtract(other, out))
    \/ \E ok \in BOOLEAN : Do("browser_dump", BrowserDump(RunState, ok), BrowserDump(other, ok))
    \/ \E ok \in BOOLEAN : Do("browser_close", BrowserClose(RunState, ok), BrowserClose(other, ok))
    \/ Do("scrape_check", ScrapeCheck(RunState), ScrapeCheck(other))
    \/ \E ok \in BOOLEAN : Do("direct_launch", DirectLaunch(RunState, ok), DirectLaunch(other, ok))
    \/ \E ok \in BOOLEAN : Do("direct_setup", DirectSetup(RunState, ok), DirectSetup(other, ok))
    \/ \E o \in EndpointOutcomes : Do("direct_endpoint", DirectEndpoint(RunState, o), DirectEndpoint(other, o))
    \/ \E ok \in BOOLEAN : Do("direct_close", DirectClose(RunState, ok), DirectClose(other, ok))
    \/ Do("scrape_limit", ScrapeLimit(RunState), ScrapeLimit(other))
    \/ \E ok \in BOOLEAN : Do("scrape_save", ScrapeSave(RunState, ok), ScrapeSave(other, ok))
    \/ Do("scrape_except", ScrapeExcept(RunState), ScrapeExcept(other))
    \/ Do("run_check", RunCheck(RunState), RunCheck(other))
    \/ \E o \in ManualOutcomes : Do("run_manual", RunManual(RunState, o), RunManual(other, o))
    \/ Do("run_message", RunMessage(RunState), RunMessage(other))
    \/ Do("run_except", RunExcept(RunState), RunExcept(other))
    \/ Do("main_done", MainDone(RunState), MainDone(other))
    \/ Do("main_except", MainExcept(RunState), MainExcept(other))
    \/ \E ok \in BOOLEAN : Do("monsters_launch", MonstersLaunch(RunState, ok), MonstersLaunch(other, ok))
    \/ \E ok \in BOOLEAN : Do("monsters_setup", MonstersSetup(RunState, ok), MonstersSetup(other, ok))
    \/ \E o \in GotoOutcomes : Do("monsters_goto", MonstersGoto(RunState, o), MonstersGoto(other, o))
    \/ \E ok \in BOOLEAN : Do("monsters_scripts", MonstersScripts(RunState, ok), MonstersScripts(other, ok))
    \/ \E out \in SiteLists("mapped") : Do("monsters_extract", MonstersExtract(RunState, out), MonstersExtract(other, out))
    \/ Do("monsters_limit", MonstersLimit(RunState), MonstersLimit(other))
    \/ \E ok \in BOOLEAN : Do("monsters_save", MonstersSave(RunState, ok), MonstersSave(other, ok))
    \/ \E ok \in BOOLEAN : Do("monsters_close", MonstersClose(RunState, ok), MonstersClose(other, ok))
    \/ Do("monsters_except", MonstersExcept(RunState), MonstersExcept(other))

\* No second invocation: its position is one no step starts from.
NotStarted == [FreshRun("spell", None, None) EXCEPT !.pc = "not_started"]

\* One invocation of an entry point.
Init ==
    /\ \E s \in Invocations : /\ scraper = s.scraper
                              /\ pc = s.pc
                              /\ limit_str = s.limit_str
                              /\ limit = s.limit
                              /\ spell_data = s.spell_data
                              /\ monster_data = s.monster_data
                              /\ all_spells = s.all_spells
                              /\ endpoint = s.endpoint
                              /\ returned = s.returned
                              /\ launched = s.launched
                              /\ closed = s.closed
                              /\ dataFile = s.dataFile
                              /\ manual = s.manual
                              /\ log = s.log
                              /\ faults = s.faults
                              /\ raised = s.raised
                              /\ exitStatus = s.exitStatus
    /\ other = NotStarted
    /\ fetched = <<>>
    /\ call = None
    /\ result = None
    /\ NoLoggers

Spec == Init /\ [][Next]_vars

\* Every call returns: each Playwright wait is bounded by its timeout, and the
\* invocation is one sequential thread, so a step that can be taken is taken.
SpecLive == Init /\ [][Next]_vars /\ WF_vars(Next)

\* Two invocations of the same entry point that differ at most in the limit.
InitTwoRuns ==
    /\ \E s \in Invocations : /\ scraper = s.scraper
                              /\ pc = s.pc
                              /\ limit_str = s.limit_str
                              /\ limit = s.limit
                              /\ spell_data = s.spell_data
                              /\ monster_data = s.monster_data
                              /\ all_spells = s.all_spells
                              /\ endpoint = s.endpoint
                              /\ returned = s.returned
                              /\ launched = s.launched
                              /\ closed = s.closed
                              /\ dataFile = s.dataFile
                              /\ manual = s.manual
                              /\ log = s.log
                              /\ faults = s.faults
                              /\ raised = s.raised
                              /\ exitStatus = s.exitStatus
    /\ other \in {t \in Invocations : t.scraper = scraper}
    /\ fetched = <<>>
    /\ call = None
    /\ result = None
    /\ NoLoggers

SpecTwoRuns == InitTwoRuns /\ [][Next]_vars

(* ------------- direct_json_fetch, request by request ------------------ *)

\* The environments scrape_spells is followed from: no limit, and a limit of 1.
FetchLimitStrs == {None, Some(<<Digits[2]>>)}

\* scrape_spells at its call of direct_json_fetch, after a browser strategy that
\* could not launch its browser.
FetchEntry(ls) ==
    ScrapeCheck(BrowserLaunch(RunStart(MainParseLimit(
        Construct(FreshRun("spell", ls, None), TRUE))), FALSE))

\* The variables of the invocation have the values of s.
Holds(s) ==
    /\ scraper = s.scraper
    /\ pc = s.pc
    /\ limit_str = s.limit_str
    /\ limit = s.limit
    /\ spell_data = s.spell_data
    /\ monster_data = s.monster_data
    /\ all_spells = s.all_spells
    /\ endpoint = s.endpoint
    /\ returned = s.returned
    /\ launched = s.launched
    /\ closed = s.closed
    /\ dataFile = s.dataFile
    /\ manual = s.manual
    /\ log = s.log
    /\ faults = s.faults
    /\ raised = s.raised
    /\ exitStatus = s.exitStatus

InitFetch ==
    /\ \E ls \in FetchLimitStrs : Holds(FetchEntry(ls))
    /\ other = NotStarted
    /\ fetched = <<>>
    /\ call = None
    /\ result = None
    /\ NoLoggers

\* One iteration of the loop, the request and its response kept in fetched.
Fetch(r) ==
    /\ pc = "direct_endpoint"
    /\ Commit(DirectEndpoint(RunState, EndpointAnswer(r)))
    /\ fetched' = Append(fetched, [url |-> possible_endpoints[endpoint], response |-> r])
    /\ UNCHANGED <<other, call, result, logVars>>

NextFetch ==
    \/ \E ok \in BOOLEAN : Do("direct_launch", DirectLaunch(RunState, ok), other)
    \/ \E ok \in BOOLEAN : Do("direct_setup", DirectSetup(RunState, ok), other)
    \/ \E r \in EndpointResponses : Fetch(r)
    \/ \E ok \in BOOLEAN : Do("direct_close", DirectClose(RunState, ok), other)
    \/ Do("scrape_limit", ScrapeLimit(RunState), other)
    \/ \E ok \in BOOLEAN : Do("scrape_save", ScrapeSave(RunState, ok), other)
    \/ Do("scrape_except", ScrapeExcept(RunState), other)
    \/ Do("run_check", RunCheck(RunState), other)
    \/ \E o \in ManualOutcomes : Do("run_manual", RunManual(RunState, o), other)
    \/ Do("run_message", RunMessage(RunState), other)
    \/ Do("run_except", RunExcept(RunState), other)
    \/ Do("main_done", MainDone(RunState), other)
    \/ Do("main_except", MainExcept(RunState), other)

SpecFetch == InitFetch /\ [][NextFetch]_vars

(* ----------------------- extract_spell_data --------------------------- *)

\* The sub-elements of a row that the DOM tier reads.
RowFields == {"name", "source", "level", "school", "time", "range", "classes"}

\* Text is a sequence of pieces, " " being white space; '' is <<>>.
RECURSIVE TrimLeft(_)
TrimLeft(text) ==
    IF text # <<>> /\ Head(text) = " " THEN TrimLeft(Tail(text)) ELSE text

RECURSIVE TrimRight(_)
TrimRight(text) ==
    IF text # <<>> /\ text[Len(text)] = " "
    THEN TrimRight(SubSeq(text, 1, Len(text) - 1)) ELSE text

\* String.prototype.trim()
Trim(text) == TrimRight(TrimLeft(text))

\* A li.row of ul.spells with all its sub-elements: each is None when
\* el.querySelector finds nothing, else its textContent; for .school its
\* className, as the pieces between '_'.
FullRow(i) ==
    [name |-> Some(<<" ", SpellNames[i], " ">>),
     source |-> Some(<<"PHB">>),
     level |-> Some(<<"3", " ">>),
     school |-> Some(<<"school", "E">>),
     time |-> Some(<<"1 action">>),
     range |-> Some(<<" ", "150 feet">>),
     classes |-> Some(<<"Wizard", " ", "Sorcerer">>)]

\* A row without the sub-elements in gone.
Without(el, gone) == [f \in RowFields |-> IF f \in gone THEN None ELSE el[f]]

\* The rows a page can have: complete ones, ones with some sub-elements
\* missing (each sub-element is missing in one of them), one whose .school
\* class has no '_', one with no sub-element.
RowElements ==
    {FullRow(1), FullRow(2),
     Without(FullRow(2), {"name", "level", "school", "time", "classes"}),
     [Without(FullRow(1), {"source", "range"}) EXCEPT !.school = Some(<<"school">>)],
     Without(FullRow(1), RowFields)}

RowLists ==
    UNION {[1..n -> RowElements] : n \in 0..MaxSpells}

\* What the spells page does when extract_spell_data runs: the first page.evaluate
\* raises, returns None, or runs its function; the global spellList is undefined
\* (None) or a list; querying the rows of ul.spells throws (None) or gives rows;
\* the second page.evaluate (the probe for JSON sources) raises, or returns
\* null, window.data.spell, the spells of an embedded JSON script, or the URLs
\* of JSON resources.
ExtractPages ==
    [evaluate : {"raise", "null", "ok"},
     spellList : {None} \cup {Some(l) : l \in SiteLists("raw")},
     rows : {None} \cup {Some(l) : l \in RowLists},
     probe : {"raise", "null", "global", "embedded", "urls"}]

\* spellList.map(spell => ({name: spell.name, ...}))
MapSpells(l) == [i \in 1..Len(l) |-> [name |-> l[i].name, shape |-> "mapped"]]

\* nameEl ? nameEl.textContent.trim() : ''
TextOf(sub) == IF sub = None THEN <<>> ELSE Trim(sub.val)

\* schoolEl ? schoolEl.className.split('_')[1] || '' : ''
SchoolOf(sub) == IF sub = None \/ Len(sub.val) < 2 THEN <<>> ELSE <<sub.val[2]>>

\* The record the DOM tier builds for one row.
RowRecord(el) ==
    [name |-> TextOf(el.name),
     source |-> TextOf(el.source),
     level |-> TextOf(el.level),
     school |-> SchoolOf(el.school),
     time |-> TextOf(el.time),
     range |-> TextOf(el.range),
     classes |-> TextOf(el.classes),
     shape |-> "dom"]

\* Mutant: a row with a missing sub-element is skipped.
MapRowsSkipIncomplete(l) ==
    LET whole == SelectSeq(l, LAMBDA el : \A f \in RowFields : el[f] # None)
    IN  [i \in 1..Len(whole) |-> RowRecord(whole[i])]

\* spellElements.map(el => ({name: nameEl ? nameEl.textContent.trim() : '', ...}))
MapRows(l) == [i \in 1..Len(l) |-> RowRecord(l[i])]

\* Mutant: the rows of the DOM are read first, spellList only when there are none.
InPageExtractRowsFirst(page) ==
    IF page.rows # None /\ Len(page.rows.val) > 0
    THEN [value |-> MapRows(page.rows.val), dom |-> TRUE]
    ELSE IF page.spellList # None
         THEN [value |-> MapSpells(page.spellList.val), dom |-> TRUE]
         ELSE [value |-> <<>>, dom |-> TRUE]

\* The function evaluated in the page: spellList when defined and non-empty; else
\* the rows of the DOM, whose errors are caught; else [].  dom: the rows were
\* queried.
InPageExtract(page) ==
    IF page.spellList # None /\ Len(page.spellList.val) > 0
    THEN [value |-> MapSpells(page.spellList.val), dom |-> FALSE]
    ELSE IF page.rows # None /\ Len(page.rows.val) > 0
         THEN [value |-> MapRows(page.rows.val), dom |-> TRUE]
         ELSE [value |-> <<>>, dom |-> TRUE]

\* Mutant: the spells the probe finds in window.data.spell are returned.
ExtractTryUseProbe(page) ==
    LET js == InPageExtract(page)
        data == IF page.evaluate = "ok" THEN Some(js.value) ELSE None
        nothing == data = None \/ Len(data.val) = 0
    IN  IF page.evaluate = "raise"
        THEN [exc |-> TRUE, value |-> <<>>, dom |-> FALSE, probed |-> FALSE]
        ELSE IF nothing /\ page.probe = "raise"
        THEN [exc |-> TRUE, value |-> <<>>, dom |-> page.evaluate = "ok" /\ js.dom, probed |-> TRUE]
        ELSE IF nothing /\ page.probe = "global"
        THEN [exc |-> FALSE, value |-> MapSpells(<<[name |-> SpellNames[1]]>>),
              dom |-> page.evaluate = "ok" /\ js.dom, probed |-> TRUE]
        ELSE IF data = None
        THEN [exc |-> TRUE, value |-> <<>>, dom |-> FALSE, probed |-> TRUE]
        ELSE [exc |-> FALSE, value |-> data.val, dom |-> js.dom, probed |-> nothing]

\* The body of extract_spell_data's try: exc when an exception leaves it (the
\* first evaluate raising; the probe raising; len(None) after a null result).
ExtractTry(page) ==
    LET js == InPageExtract(page)
        data == IF page.evaluate = "ok" THEN Some(js.value) ELSE None
        nothing == data = None \/ Len(data.val) = 0
    IN  IF page.evaluate = "raise"
        THEN [exc |-> TRUE, value |-> <<>>, dom |-> FALSE, probed |-> FALSE]
        ELSE IF nothing /\ page.probe = "raise"
        THEN [exc |-> TRUE, value |-> <<>>, dom |-> page.evaluate = "ok" /\ js.dom, probed |-> TRUE]
        ELSE IF data = None
        THEN [exc |-> TRUE, value |-> <<>>, dom |-> FALSE, probed |-> TRUE]
        ELSE [exc |-> FALSE, value |-> data.val, dom |-> js.dom, probed |-> nothing]

\* if json_data: the probe's find is logged, nothing more.
ProbeLog(page, b) ==
    IF b.probed /\ page.probe \in {"global", "embedded", "urls"}
    THEN {"Found potential JSON data sources"} ELSE {}

\* Mutant: the handler logs and re-raises.
extract_spell_data_reraise(page) ==
    LET b == ExtractTry(page)
    IN  [raised |-> b.exc, value |-> b.value, dom |-> b.dom, probed |-> b.probed,
         log |-> ProbeLog(page, b) \cup (IF b.exc THEN {"Error extracting spell data"} ELSE {})]

\* extract_spell_data: `except Exception` logs and returns [].
extract_spell_data(page) ==
    LET b == ExtractTry(page)
    IN  [raised |-> FALSE, value |-> IF b.exc THEN <<>> ELSE b.value, dom |-> b.dom,
         probed |-> b.probed,
         log |-> ProbeLog(page, b) \cup (IF b.exc THEN {"Error extracting spell data"} ELSE {})]

(* ----------------------- extract_monster_data ------------------------- *)

\* The bestiary page: page.evaluate raises, returns None or runs; window.monsters
\* is undefined (None) or a list.
MonsterPages ==
    [evaluate : {"raise", "null", "ok"},
     monsters : {None} \cup {Some(l) : l \in SiteLists("raw")}]

\* (window.monsters || []).map(mon => ({name: mon.name, ...}))
InPageMonsters(page) == IF page.monsters = None THEN <<>> ELSE MapSpells(page.monsters.val)

\* extract_monster_data: len(None) after a null result raises inside the try;
\* `except Exception` logs and returns [].
extract_monster_data(page) ==
    IF page.evaluate = "ok"
    THEN [raised |-> FALSE, value |-> InPageMonsters(page), log |-> {}]
    ELSE [raised |-> FALSE, value |-> <<>>, log |-> {"Error extracting monster data"}]

(* --------------------------- wait_for_js_data ------------------------- *)

\* Seconds after the call at which a global of the page gets its data.
Times == {0, 25, 150}

\* The timeouts wait_for_js_data is called with (seconds), and its default.
Timeouts == {20, 30, 120}

\* The page while wait_for_js_data polls: when spellList and spellData become
\* non-empty (None: never), and whether page.wait_for_function fails for another
\* reason than its timeout.
JsPages ==
    [spellListAt : {None} \cup {Some(x) : x \in Times},
     spellDataAt : {None} \cup {Some(x) : x \in Times},
     crash : BOOLEAN]

\* Mutant: the predicate waits for spellList or spellData.
JsDataReadyAtEither(page) ==
    IF page.spellListAt = None THEN page.spellDataAt
    ELSE IF page.spellDataAt = None THEN page.spellListAt
    ELSE Some(Min(page.spellListAt.val, page.spellDataAt.val))

\* When the predicate handed to page.wait_for_function becomes true: spellList
\* defined and non-empty and spellData defined with at least one key.
JsDataReadyAt(page) ==
    IF page.spellListAt = None \/ page.spellDataAt = None THEN None
    ELSE Some(Max(page.spellListAt.val, page.spellDataAt.val))

\* wait_for_js_data(page, timeout): True when wait_for_function returns, False
\* (logged) on TimeoutError and on any other exception.
wait_for_js_data(page, timeout) ==
    IF page.crash
    THEN [raised |-> FALSE, value |-> FALSE, log |-> {"Error waiting for JavaScript data"}]
    ELSE IF JsDataReadyAt(page) # None /\ JsDataReadyAt(page).val < timeout
    THEN [raised |-> FALSE, value |-> TRUE, log |-> {}]
    ELSE [raised |-> FALSE, value |-> FALSE, log |-> {"Timeout waiting for JavaScript data to load"}]

(* ----------------------- wait_for_critical_scripts -------------------- *)

critical_scripts(cls) ==
    <<"js/parser.js", "js/utils.js", "lib/jquery.js", "js/utils-ui.js",
      IF cls = "spell" THEN "js/spells.js" ELSE "js/bestiary.js">>

JsObjects == {"jQuery", "Parser", "Utils"}

\* The page while wait_for_critical_scripts runs: which of the five script tags
\* get attached within the per-script timeout; whether wait_for_load_state
\* returns; the globals defined (None: that page.evaluate raises); whether the
\* debug screenshot can be written; whether the globals all get defined within
\* the timeout of wait_for_function.
ScriptPages ==
    [attached : SUBSET (1..5),
     load : BOOLEAN,
     objects : {None} \cup {Some(S) : S \in SUBSET JsObjects},
     shot : BOOLEAN,
     defined : BOOLEAN]

\* SpellScraper.wait_for_critical_scripts: each wait_for_selector has its own
\* handler; the outer handler logs and returns.  waited: page.wait_for_function
\* was called, which the code does when jQuery or Parser is not yet defined.
SpellWaitForCriticalScripts(page) ==
    LET scripts == critical_scripts("spell")
        missing == {scripts[i] : i \in (1..Len(scripts)) \ page.attached}
        warn == IF missing = {} THEN {} ELSE {"Could not find script", "Not all scripts were found. Continuing anyway."}
        failed == ~page.load \/ page.objects = None \/ ~page.shot
        waits == ~failed /\ ~({"jQuery", "Parser"} \subseteq page.objects.val)
    IN  [raised |-> FALSE,
         polled |-> scripts,
         evaluated |-> page.load,
         waited |-> waits,
         log |-> warn
                 \cup (IF failed THEN {"Error waiting for scripts",
                                       "Continuing execution despite script loading issues"}
                       ELSE {"Critical scripts load step completed"})
                 \cup (IF waits /\ ~page.defined
                       THEN {"Timeout waiting for key JavaScript objects"} ELSE {})]

\* BestiaryScraper.wait_for_critical_scripts: the first wait_for_selector that
\* times out leaves the loop; the handler logs and re-raises.
BestiaryWaitForCriticalScripts(page) ==
    LET scripts == critical_scripts("bestiary")
        gaps == (1..Len(scripts)) \ page.attached
        first == IF gaps = {} THEN Len(scripts) ELSE CHOOSE i \in gaps : \A j \in gaps : i <= j
        failed == gaps # {} \/ ~page.load \/ ~page.defined
    IN  [raised |-> failed,
         polled |-> SubSeq(scripts, 1, first),
         evaluated |-> gaps = {} /\ page.load,
         waited |-> gaps = {} /\ page.load,
         log |-> IF failed THEN {"Error waiting for scripts"} ELSE {"Critical scripts loaded"}]

wait_for_critical_scripts(cls, page) ==
    IF cls = "spell" THEN SpellWaitForCriticalScripts(page)
    ELSE BestiaryWaitForCriticalScripts(page)

(* ----------------------- simulate_human_behavior ---------------------- *)

\* for i in range(5): scroll and pause.
ScrollRounds == 5

\* for i in range(3): pointer move and pause.
MoveRounds == 3

\* The Playwright calls simulate_human_behavior makes when none fails, in order.
\* outer: the scrolls and, with a known viewport, the pointer moves (randint: the
\* coordinates of a viewport too small for randint(100, width - 200), which
\* raises ValueError); inner: the query for filter buttons and, when there is
\* one, click, pause, click; then the final pause.
OuterPlan(viewport) ==
    [i \in 1..(2 * ScrollRounds) |-> IF i % 2 = 1 THEN "scroll" ELSE "pause"]
        \o (CASE viewport = "none" -> <<>>
              [] viewport = "small" -> <<"randint">>
              [] OTHER -> [i \in 1..(2 * MoveRounds) |-> IF i % 2 = 1 THEN "move" ELSE "pause"])

InnerPlan(buttons) ==
    <<"query">> \o (IF buttons > 0 THEN <<"click", "pause", "click">> ELSE <<>>)

HumanPlan(page) == OuterPlan(page.viewport) \o InnerPlan(page.buttons) \o <<"pause">>

LongestPlan == Len(HumanPlan([viewport |-> "normal", buttons |-> 1]))

\* The page while simulate_human_behavior runs: page.viewport_size (none, too
\* small, normal), the number of filter buttons, and which calls of the plan
\* raise (at most two of them).
HumanPages ==
    [viewport : {"none", "small", "normal"},
     buttons : 0..2,
     fails : {{}} \cup {{i, j} : i, j \in 1..LongestPlan}]

\* The i-th call of the plan raises.
HumanFails(page, i) == i \in page.fails \/ HumanPlan(page)[i] = "randint"

\* The first call among lo..hi of the plan that raises, 0 when none does.
FirstFailure(page, lo, hi) ==
    IF \E i \in lo..hi : HumanFails(page, i)
    THEN CHOOSE i \in lo..hi : HumanFails(page, i) /\ \A j \in lo..(i - 1) : ~HumanFails(page, j)
    ELSE 0

\* The calls that completed, and whether an exception reached the outer handler.
\* A failure among the outer calls ends the function at once; a failure among the
\* inner calls is passed over by the bare except and the final pause follows.
HumanTry(page) ==
    LET plan == HumanPlan(page)
        o == Len(OuterPlan(page.viewport))
        n == Len(plan)
        a == FirstFailure(page, 1, o)
        b == FirstFailure(page, o + 1, n - 1)
        inner == SubSeq(plan, 1, IF b = 0 THEN n - 1 ELSE b - 1)
    IN  IF a # 0 THEN [exc |-> TRUE, done |-> SubSeq(plan, 1, a - 1)]
        ELSE IF HumanFails(page, n) THEN [exc |-> TRUE, done |-> inner]
        ELSE [exc |-> FALSE, done |-> Append(inner, plan[n])]

\* Mutant: the outer handler logs and re-raises.
simulate_human_behavior_reraise(page) ==
    LET b == HumanTry(page)
    IN  [raised |-> b.exc, done |-> b.done,
         log |-> IF b.exc THEN {"Error simulating human behavior"}
                 ELSE {"Human behavior simulation completed"}]

\* simulate_human_behavior: `except Exception` logs and returns.
simulate_human_behavior(page) ==
    LET b == HumanTry(page)
    IN  [raised |-> FALSE, done |-> b.done,
         log |-> IF b.exc THEN {"Error simulating human behavior"}
                 ELSE {"Human behavior simulation completed"}]

(* ------------------------ handle_cookie_consent ----------------------- *)

\* The frame selectors tried for a consent frame, in order.
frame_selectors ==
    <<"#consent", "#cookie-consent", "iframe[id*=cookie]", "iframe[title*=cookie]">>

\* The accept selectors, in priority order.
accept_selectors ==
    <<"text=Accept all", "text=Accept", "text=Agree", "[aria-label*=Accept]",
      "button:has-text(Accept)", "button:has-text(Agree)", "[class*=accept]",
      "[id*=accept]">>

AcceptIdx == 1..Len(accept_selectors)

\* The accept selectors a banner is given here: none, or one or two of the
\* first, the second and the last.
MatchSets == {{}} \cup {{i, j} : i, j \in {1, 2, Len(accept_selectors)}}

\* The page while handle_cookie_consent runs: whether page.frame_locator
\* raises, which frame selector (0: none) has a frame in the document, which
\* accept selectors match in the main document and in that frame, and the one
\* selector (0: none) for which count(), click() or the pause raises.
ConsentPages ==
    [frameRaises : BOOLEAN,
     frame : 0..2,
     mainMatches : MatchSets,
     frameMatches : MatchSets,
     failing : 0..2,
     failure : {"count", "click", "wait"}]

MainPage == [kind |-> "page", selector |-> 0]

\* Lines 103-114. page.frame_locator(sel).first is a FrameLocator whether or
\* not the document has such a frame, and a FrameLocator is truthy: the loop
\* stops at the first selector. consent_frame stays None only when
\* frame_locator raises.
ConsentTarget(page) ==
    IF page.frameRaises THEN MainPage ELSE [kind |-> "frame", selector |-> 1]

\* The accept selectors with count() > 0 under the target.
TargetMatches(page, target) ==
    IF target.kind = "page" THEN page.mainMatches
    ELSE IF target.selector = page.frame THEN page.frameMatches
    ELSE {}

ConsentFails(page, i, what) == page.failing = i /\ page.failure = what

\* Lines 128-138, from selector i on: tried and clicks so far in acc.
RECURSIVE AcceptLoop(_, _, _, _)
AcceptLoop(page, target, i, acc) ==
    IF i > Len(accept_selectors)
    THEN [acc EXCEPT !.log = @ \cup {"Could not find or click the accept button"}]
    ELSE LET seen == [acc EXCEPT !.tried = Append(@, i)]
             found == [seen EXCEPT !.log = @ \cup {"Found accept button"}]
             clicked == [found EXCEPT !.clicks = Append(@, i)]
         IN  IF ConsentFails(page, i, "count") THEN AcceptLoop(page, target, i + 1, seen)
             ELSE IF i \notin TargetMatches(page, target)
             THEN AcceptLoop(page, target, i + 1, seen)
             ELSE IF ConsentFails(page, i, "click") THEN AcceptLoop(page, target, i + 1, found)
             ELSE IF ConsentFails(page, i, "wait") THEN AcceptLoop(page, target, i + 1, clicked)
             ELSE clicked

\* handle_cookie_consent: nothing of the body raises past the per-selector
\* handlers, so the outer handler has nothing left to catch.
handle_cookie_consent(page) ==
    LET target == ConsentTarget(page)
    IN  AcceptLoop(page, target, 1,
                   [raised |-> FALSE, target |-> target, tried |-> <<>>, clicks |-> <<>>,
                    log |-> {"Looking for cookie consent banner..."}])

(* ------------------------- the helpers, called ------------------------ *)

\* The calls of the page helpers: the function, the scraper class, the page it is
\* given, and the timeout argument.
Calls ==
    {[fn |-> "extract_spell_data", cls |-> "spell", page |-> p, timeout |-> 0] : p \in ExtractPages}
        \cup {[fn |-> "extract_monster_data", cls |-> "bestiary", page |-> p, timeout |-> 0] : p \in MonsterPages}
        \cup {[fn |-> "wait_for_js_data", cls |-> "spell", page |-> p, timeout |-> x] :
                    p \in JsPages, x \in Timeouts}
        \cup {[fn |-> "wait_for_critical_scripts", cls |-> c, page |-> p, timeout |-> 0] :
                    c \in {"spell", "bestiary"}, p \in ScriptPages}
        \cup {[fn |-> "simulate_human_behavior", cls |-> "spell", page |-> p, timeout |-> 0] :
                    p \in HumanPages}
        \cup {[fn |-> "handle_cookie_consent", cls |-> "spell", page |-> p, timeout |-> 0] :
                    p \in ConsentPages}

\* No invocation of main runs; one helper is called on a page.
InitCalls ==
    /\ Holds(NotStarted)
    /\ other = NotStarted
    /\ fetched = <<>>
    /\ call \in Calls
    /\ result = None
    /\ NoLoggers

\* The call returns (or raises) r.
Returns(fn, r) ==
    /\ call.fn = fn
    /\ result = None
    /\ result' = Some(r)
    /\ UNCHANGED <<runVars, other, fetched, call, logVars>>

NextCalls ==
    \/ Returns("extract_spell_data", extract_spell_data(call.page))
    \/ Returns("extract_monster_data", extract_monster_data(call.page))
    \/ Returns("wait_for_js_data", wait_for_js_data(call.page, call.timeout))
    \/ Returns("wait_for_critical_scripts", wait_for_critical_scripts(call.cls, call.page))
    \/ Returns("simulate_human_behavior", simulate_human_behavior(call.page))
    \/ Returns("handle_cookie_consent", handle_cookie_consent(call.page))

SpecCalls == InitCalls /\ [][NextCalls]_vars

(* ----------------------------- setup_logger --------------------------- *)

\* How many times setup_logger returns one logger.
MaxSetups == 2

\* The subfolder argument: None (the default), '' or a name.
Subfolders == {None, Some(""), Some("data-extraction"), Some("tests-extraction")}

\* What the file system does during a call.
SetupOutcomes == {"ok", "mkdir_fails", "submkdir_fails", "open_fails"}

FileHandler(dir, name) == [kind |-> "file", dir |-> dir, name |-> name, level |-> "DEBUG"]

StreamHandler == [kind |-> "console", dir |-> "", name |-> "", level |-> "INFO"]

\* logging.getLogger(name): the logger of that name, created on first use.
GetLogger(reg, name) ==
    IF reg[name] = None THEN [level |-> "NOTSET", handlers |-> <<>>] ELSE reg[name].val

\* Mutant: handlers are added on every call.
setup_logger_unguarded(name, subfolder, o) ==
    LET sub == subfolder # None /\ subfolder.val # ""
        dir == IF sub THEN subfolder.val ELSE "logs"
        made == logDirs \cup {"logs"}
        logger == [GetLogger(loggers, name) EXCEPT !.level = "DEBUG"]
        opens == TRUE
    IN  IF o = "mkdir_fails"
        THEN [raised |-> TRUE, loggers |-> loggers, logDirs |-> logDirs]
        ELSE IF sub /\ o = "submkdir_fails"
        THEN [raised |-> TRUE, loggers |-> loggers, logDirs |-> made]
        ELSE IF opens /\ o = "open_fails"
        THEN [raised |-> TRUE,
              loggers |-> [loggers EXCEPT ![name] = Some(logger)],
              logDirs |-> made \cup {dir}]
        ELSE [raised |-> FALSE,
              loggers |-> [loggers EXCEPT ![name] = Some(
                    IF opens
                    THEN [logger EXCEPT !.handlers = @ \o <<FileHandler(dir, name), StreamHandler>>]
                    ELSE logger)],
              logDirs |-> made \cup {dir}]

\* setup_logger(logger_name, subfolder): the directories are made, the logger
\* is fetched and set to DEBUG, and only a logger without handlers gets a file
\* handler and a console handler.  An exception of mkdir or of opening the log
\* file leaves the function before any handler is added.
setup_logger(name, subfolder, o) ==
    LET sub == subfolder # None /\ subfolder.val # ""
        dir == IF sub THEN subfolder.val ELSE "logs"
        made == logDirs \cup {"logs"}
        logger == [GetLogger(loggers, name) EXCEPT !.level = "DEBUG"]
        opens == logger.handlers = <<>>
    IN  IF o = "mkdir_fails"
        THEN [raised |-> TRUE, loggers |-> loggers, logDirs |-> logDirs]
        ELSE IF sub /\ o = "submkdir_fails"
        THEN [raised |-> TRUE, loggers |-> loggers, logDirs |-> made]
        ELSE IF opens /\ o = "open_fails"
        THEN [raised |-> TRUE,
              loggers |-> [loggers EXCEPT ![name] = Some(logger)],
              logDirs |-> made \cup {dir}]
        ELSE [raised |-> FALSE,
              loggers |-> [loggers EXCEPT ![name] = Some(
                    IF opens
                    THEN [logger EXCEPT !.handlers = @ \o <<FileHandler(dir, name), StreamHandler>>]
                    ELSE logger)],
              logDirs |-> made \cup {dir}]

\* No run and no helper call is in progress.
InitLogger ==
    /\ Holds(NotStarted)
    /\ other = NotStarted
    /\ fetched = <<>>
    /\ call = None
    /\ result = None
    /\ NoLoggers

\* One call of setup_logger and its effect on the registry.
SetupLoggerCall(name, subfolder, o) ==
    /\ setups[name] < MaxSetups
    /\ LET r == setup_logger(name, subfolder, o)
       IN  /\ loggers' = r.loggers
           /\ logDirs' = r.logDirs
           /\ setups' = IF r.raised THEN setups ELSE [setups EXCEPT ![name] = @ + 1]
    /\ UNCHANGED <<runVars, other, fetched, call, result>>

\* SpellScraper() or BestiaryScraper(): __init__ sets its logger up.
NewScraper(cls, o) == SetupLoggerCall(cls, Some("data-extraction"), o)

NextLogger ==
    \/ \E name \in LoggerNames, subfolder \in Subfolders, o \in SetupOutcomes :
            SetupLoggerCall(name, subfolder, o)
    \/ \E cls \in {"spell", "bestiary"}, o \in SetupOutcomes : NewScraper(cls, o)

SpecLogger == InitLogger /\ [][NextLogger]_vars

(* ------------------------------- claims ------------------------------- *)

DirectLabels == {"direct_launch", "direct_setup", "direct_endpoint", "direct_close"}

\* Both automated strategies of scrape_spells returned an empty sequence.
BothEmpty == returned["browser"] = Some(<<>>) /\ returned["direct"] = Some(<<>>)

\* The output of the strategy whose records the run persists: extract_monster_data
\* for the bestiary; for spells the browser strategy, or direct fetch when the
\* browser strategy returned nothing.
Producer ==
    IF scraper = "bestiary" THEN returned["bestiary"]
    ELSE IF returned["browser"] \notin {None, Some(<<>>)} THEN returned["browser"]
    ELSE returned["direct"]

\* C1: once the browser strategy has returned zero records, scrape_spells goes on
\* to direct fetch; when direct fetch returned zero records too, no spells.json is
\* written, and the run ends either with both manual-fallback files written or,
\* when writing them failed, with exit status 1.
C1_FallbackChain ==
    /\ (returned["browser"] = Some(<<>>) /\ pc # "scrape_check")
            => (pc \in DirectLabels \/ returned["direct"] # None)
    /\ BothEmpty => dataFile = None
    /\ (pc = "exited" /\ BothEmpty)
            => \/ manual = {"js", "readme"} /\ exitStatus = Some(0)
               \/ "manual" \in faults /\ exitStatus = Some(1)

C1_Witness ==
    /\ pc = "exited"
    /\ BothEmpty
    /\ manual = {"js", "readme"}
    /\ dataFile = None

\* C2: manual-fallback files and the MANUAL EXTRACTION REQUIRED message occur only
\* if both strategies returned an empty sequence, and no run both writes
\* spells.json and emits manual-fallback files.
C2_ManualOnlyWhenBothEmpty ==
    /\ (manual # {} \/ "MANUAL EXTRACTION REQUIRED" \in log) => BothEmpty
    /\ ~(dataFile # None /\ manual # {})

\* C3: with limit = N > 0 and a producing strategy that returned M >= N records,
\* the data file holds exactly the first N of them, in order; and a run that ends
\* normally with such an output has written the file.
C3_LimitTruncates ==
    (limit # None /\ limit.val > 0 /\ Producer # None /\ Len(Producer.val) >= limit.val)
        => /\ dataFile # None => dataFile.val = SubSeq(Producer.val, 1, limit.val)
           /\ (pc = "exited" /\ exitStatus = Some(0)) => dataFile # None

C3_Witness ==
    /\ pc = "exited"
    /\ limit # None /\ limit.val > 0
    /\ dataFile # None /\ Len(dataFile.val) = limit.val
    /\ Producer # None /\ Len(Producer.val) > limit.val

\* C4: with the limit unset, the data file holds exactly the producing strategy's
\* output, in order.
C4_NoLimitKeepsAll ==
    (limit = None /\ dataFile # None) => (Producer # None /\ dataFile.val = Producer.val)

C4_Witness ==
    /\ pc = "exited"
    /\ limit = None
    /\ Producer # None /\ Len(Producer.val) = MaxSpells
    /\ dataFile = Producer

PositiveOrUnset(l) == l = None \/ l.val > 0

\* a is the smaller limit, b the larger one or no limit.
LimitLeq(a, b) == a # None /\ (b = None \/ a.val <= b.val)

\* C5: two invocations that differ only in the limit and get the same answers
\* from the site stay at the same position, launch the same strategies and get
\* the same raw outputs; at the end, for positive limits, one has a data file iff
\* the other has, and the file of the smaller limit is a prefix of the other's.
C5_LimitIndependent ==
    /\ other.pc = pc
    /\ other.returned = returned
    /\ other.launched = launched
    /\ (pc = "exited" /\ PositiveOrUnset(limit) /\ PositiveOrUnset(other.limit)
            /\ LimitLeq(limit, other.limit))
            => /\ (dataFile = None) = (other.dataFile = None)
               /\ dataFile # None => IsPrefix(dataFile.val, other.dataFile.val)

C5_Witness ==
    /\ pc = "exited"
    /\ limit = Some(1)
    /\ other.limit \in {None, Some(2)}
    /\ dataFile # None /\ other.dataFile # None
    /\ Len(dataFile.val) < Len(other.dataFile.val)

\* C6: direct fetch runs only after the browser strategy returned nothing, and
\* spells.json holds a prefix of the output of one strategy: the browser's when
\* direct fetch never ran, the direct fetch's otherwise.
C6_OneStrategy ==
    scraper = "spell" =>
        /\ (pc \in DirectLabels \/ returned["direct"] # None) => returned["browser"] = Some(<<>>)
        /\ dataFile # None =>
              IF returned["direct"] = None
              THEN returned["browser"] # None /\ IsPrefix(dataFile.val, returned["browser"].val)
              ELSE IsPrefix(dataFile.val, returned["direct"].val)

C6_Witness ==
    /\ scraper = "spell"
    /\ returned["browser"] = Some(<<>>)
    /\ returned["direct"] # None
    /\ dataFile # None /\ dataFile = returned["direct"]

\* Strategy st has returned or raised.
StrategyExited(st) ==
    IF st = "bestiary"
    THEN scraper = "bestiary"
            /\ pc \in {"monsters_except", "run_except", "main_except", "main_done", "exited"}
    ELSE returned[st] # None

\* C7: a strategy that launched a browser has called browser.close() by the time
\* it returns or raises.
C7_ClosedOnEveryExit ==
    \A st \in Strategies : (StrategyExited(st) /\ st \in launched) => st \in closed

\* C8: a data file that is written holds at least one record, and no data file is
\* written when the extraction yielded zero records.
C8_NoEmptyDataFile ==
    /\ dataFile # None => dataFile.val # <<>>
    /\ Producer = Some(<<>>) => dataFile = None

FatalFaults == {"makedirs", "save", "manual"}

\* C9: in the spell scraper, a failure to create the output directory or to write
\* spells.json or a manual-fallback file is not swallowed: control is in an
\* exception handler from then on, the exception leaves __init__ (makedirs) or
\* run (the writes), and the process ends with exit status 1.
C9_FatalPropagates ==
    (scraper = "spell" /\ faults \cap FatalFaults # {}) =>
        /\ pc \in {"scrape_except", "run_except", "main_except", "exited"}
        /\ pc \in {"main_except", "exited"} =>
                IF "makedirs" \in faults THEN "__init__" \in raised ELSE "run" \in raised
        /\ pc = "exited" => exitStatus = Some(1)

C9_Witness ==
    /\ scraper = "spell"
    /\ pc = "exited"
    /\ "save" \in faults
    /\ raised = {"scrape_spells", "run"}
    /\ exitStatus = Some(1)

\* C10: no exception leaves _scrape_with_browser or direct_json_fetch; a strategy
\* in which a step failed has returned the empty sequence; after a failed browser
\* strategy the direct fetch is attempted, and a run ends with exit status 1 only
\* because of a file-system failure, never because a strategy failed.
C10_StrategiesNeverRaise ==
    scraper = "spell" =>
        /\ raised \cap {"_scrape_with_browser", "direct_json_fetch"} = {}
        /\ "browser" \in faults => returned["browser"] = Some(<<>>)
        /\ "direct" \in faults => returned["direct"] = Some(<<>>)
        /\ ("browser" \in faults /\ pc # "scrape_check")
                => (pc \in DirectLabels \/ returned["direct"] # None)
        /\ ("direct" \in faults /\ pc = "exited" /\ faults \cap FatalFaults = {})
                => exitStatus = Some(0)
        /\ exitStatus = Some(1) => faults \cap FatalFaults # {}

C10_Witness ==
    /\ pc = "exited"
    /\ {"browser", "direct"} \subseteq faults
    /\ raised = {}
    /\ exitStatus = Some(0)

\* The positions of one invocation of run_spell_scraper.main, in program order.
PipelineOrder ==
    <<"main", "main_limit", "run",
      "browser_launch", "browser_setup", "browser_goto", "browser_consent", "browser_scripts",
      "browser_human", "browser_netidle", "browser_wait_js", "browser_force",
      "browser_wait_js2", "browser_extract", "browser_dump", "browser_close", "scrape_check",
      "direct_launch", "direct_setup", "direct_endpoint", "direct_close",
      "scrape_limit", "scrape_save", "scrape_except", "run_check",
      "run_manual", "run_message",
      "run_except", "main_done", "main_except", "exited">>

Position(l) == CHOOSE i \in 1..Len(PipelineOrder) : PipelineOrder[i] = l

\* C11: a run of the spell scraper only moves forward through idle, browser
\* attempt, direct-fetch attempt, manual fallback, done (the one repetition is the
\* bounded loop over the candidate endpoints, which moves to the next candidate),
\* so no position is revisited and each strategy and the manual emitter are
\* entered at most once; every run whose calls all return reaches the terminal
\* state; and a run that ends after run() was entered has attempted the browser
\* strategy.
C11_TerminatesInOrder ==
    /\ [][scraper = "spell" =>
            \/ Position(pc') > Position(pc)
            \/ pc = "direct_endpoint" /\ pc' = pc /\ endpoint' = endpoint + 1]_vars
    /\ <>(pc = "exited")
    /\ []((scraper = "spell" /\ pc = "exited" /\ "makedirs" \notin faults)
            => returned["browser"] # None)

C11_Witness ==
    /\ scraper = "spell"
    /\ pc = "exited"
    /\ returned["browser"] = Some(<<>>)
    /\ endpoint = Len(possible_endpoints)
    /\ returned["direct"] = Some(<<>>)
    /\ manual = {"js", "readme"}
    /\ raised = {}

\* The records the i-th request contributed.
Yield(i) == EndpointAnswer(fetched[i].response).recs

\* The loop of direct_json_fetch is over.
LoopDone == pc \notin {"direct_launch", "direct_setup", "direct_endpoint"}

\* C12: the requests of direct_json_fetch go to the candidate endpoints in their
\* listed order; every request before the last one made yielded no record; once
\* the loop is over, either the last request yielded a record or all three
\* candidates were requested, and the function's accumulator, and its return
\* value when it returns normally, are exactly the records of the last request.
C12_FirstYieldingEndpoint ==
    /\ Len(fetched) <= Len(possible_endpoints)
    /\ \A i \in 1..Len(fetched) : fetched[i].url = possible_endpoints[i]
    /\ \A i \in 1..(Len(fetched) - 1) : Yield(i) = <<>>
    /\ (LoopDone /\ fetched # <<>>) =>
            /\ Yield(Len(fetched)) # <<>> \/ Len(fetched) = Len(possible_endpoints)
            /\ all_spells = Yield(Len(fetched))
            /\ (returned["direct"] # None /\ "direct" \notin faults)
                    => returned["direct"].val = Yield(Len(fetched))

C12_Witness ==
    /\ Len(fetched) = 2
    /\ Yield(1) = <<>>
    /\ Len(Yield(2)) = MaxSpells
    /\ returned["direct"] = Some(Yield(2))
    /\ dataFile = returned["direct"]
    /\ pc = "exited"

\* The request met one of the failures: page.goto raised or timed out, the
\* response was missing or not OK, the body did not parse, or the value under
\* the wrapping key was not a list.
FailedRequest(r) ==
    \/ r.kind \in {"raise", "no_response", "not_ok", "bad_json"}
    \/ /\ r.kind = "json"
       /\ r.body.type = "dict"
       /\ \/ HasKey(r.body, "spell") /\ Get(r.body, "spell").type # "list"
          \/ ~HasKey(r.body, "spell") /\ HasKey(r.body, "spells")
                /\ Get(r.body, "spells").type # "list"

\* C13: a failed request that is not the last candidate is followed by the request
\* of the next candidate (the loop is still running or went on), and when all
\* candidates were requested and none yielded a record the function returns the
\* empty sequence.
C13_FailedEndpointSkipped ==
    /\ \A i \in 1..Len(fetched) :
            (FailedRequest(fetched[i].response) /\ i < Len(possible_endpoints))
                => (i < Len(fetched) \/ pc = "direct_endpoint")
    /\ (returned["direct"] # None /\ Len(fetched) = Len(possible_endpoints)
            /\ \A i \in 1..Len(fetched) : Yield(i) = <<>>)
            => returned["direct"] = Some(<<>>)

\* The last request was answered with the spells es in the given shape.
Presented(shape, es) ==
    /\ fetched # <<>>
    /\ pc \in {"direct_endpoint", "direct_close"}
    /\ fetched[Len(fetched)].response = [kind |-> "json", body |-> Present(shape, es)]

\* C14: a payload that is the list of the spells, an object holding that list
\* under 'spell' (also when 'spells' is present too) or under 'spells', or an
\* object whose values are the spells among values that lack 'name' or 'source',
\* leaves the same records in the accumulator: those spells, in order.
C14_ShapesNormalize ==
    \A shape \in {"list", "spell", "spells", "both", "values"} : \A es \in EntityLists :
        Presented(shape, es) => all_spells = es

C14_Witness ==
    \E es \in EntityLists : /\ Len(es) = MaxSpells
                             /\ Presented("values", es)
                             /\ all_spells = es

\* C15: when the browser strategy returned nothing, the first candidate yielded
\* nothing and the second candidate answered with an object holding the spells
\* under 'items', a run without limit that ends normally has persisted exactly
\* those spells, and no third request was made.
C15_ItemsWrapperPersisted ==
    \A es \in EntityLists \ {<<>>} :
        (/\ returned["browser"] = Some(<<>>)
         /\ Len(fetched) >= 2
         /\ Yield(1) = <<>>
         /\ fetched[2].response = [kind |-> "json", body |-> Present("items", es)]
         /\ limit = None
         /\ pc = "exited"
         /\ exitStatus = Some(0))
            => (dataFile = Some(es) /\ Len(fetched) = 2)

\* The helper fn was called and has returned or raised.
Called(fn) == call # None /\ call.fn = fn /\ result # None

\* What the two tiers of the in-page extraction have to offer on the page of the
\* call: the global spellList, and the rows of the DOM.
PrimaryTier == IF call.page.spellList = None THEN <<>> ELSE call.page.spellList.val
DomTier == IF call.page.rows = None THEN <<>> ELSE call.page.rows.val

\* C16: when the in-page extraction runs, the rows of the DOM are consulted iff
\* spellList is undefined or empty; a non-empty spellList is returned alone, one
\* mapped record per spell in order; and nothing is returned only when spellList
\* and the rows both had nothing.
C16_DomTierOnlyAfterPrimary ==
    (Called("extract_spell_data") /\ call.page.evaluate = "ok") =>
        /\ result.val.dom <=> PrimaryTier = <<>>
        /\ PrimaryTier # <<>> =>
              /\ Len(result.val.value) = Len(PrimaryTier)
              /\ \A i \in 1..Len(PrimaryTier) :
                    result.val.value[i] = [name |-> PrimaryTier[i].name, shape |-> "mapped"]
        /\ result.val.value = <<>> => (PrimaryTier = <<>> /\ DomTier = <<>>)

C16_Witness ==
    /\ Called("extract_spell_data")
    /\ call.page.evaluate = "ok"
    /\ call.page.spellList = Some(<<>>)
    /\ Len(DomTier) = MaxSpells
    /\ result.val.dom
    /\ Len(result.val.value) = MaxSpells
    /\ \A i \in 1..MaxSpells : result.val.value[i].shape = "dom"

\* C17: extract_spell_data and extract_monster_data do not raise; when the
\* evaluation in the page raises or returns null, or when the probe for JSON
\* sources raises, they log the error and return the empty sequence.
C17_ExtractNeverRaises ==
    \A fn \in {"extract_spell_data", "extract_monster_data"} :
        Called(fn) =>
            /\ ~result.val.raised
            /\ call.page.evaluate # "ok" => (result.val.value = <<>> /\ result.val.log # {})
            /\ (fn = "extract_spell_data" /\ call.page.evaluate = "ok"
                    /\ PrimaryTier = <<>> /\ DomTier = <<>> /\ call.page.probe = "raise")
                    => (result.val.value = <<>> /\ result.val.log # {})

C17_Witness ==
    /\ Called("extract_spell_data")
    /\ call.page.evaluate = "ok"
    /\ call.page.probe = "raise"
    /\ PrimaryTier = <<>> /\ DomTier = <<>>
    /\ ~result.val.raised
    /\ result.val.probed
    /\ result.val.value = <<>>
    /\ result.val.log = {"Error extracting spell data"}

\* C18: in both scrapers, when a script tag is still missing after its timeout,
\* wait_for_critical_scripts does not raise, has polled all five scripts, and,
\* the document being loaded, goes on to evaluate readiness.
C18_MissingScriptNotFatal ==
    (Called("wait_for_critical_scripts") /\ call.page.attached # 1..5) =>
        /\ ~result.val.raised
        /\ result.val.polled = critical_scripts(call.cls)
        /\ call.page.load => result.val.evaluated

\* C19: wait_for_js_data does not raise and returns a boolean: True exactly when
\* page.wait_for_function met no other error and spellList and spellData both
\* became non-empty before the timeout; False otherwise, in particular when the
\* globals never get defined.
C19_WaitForJsDataReturns ==
    Called("wait_for_js_data") =>
        /\ ~result.val.raised
        /\ result.val.value \in BOOLEAN
        /\ result.val.value <=>
              /\ ~call.page.crash
              /\ call.page.spellListAt # None /\ call.page.spellListAt.val < call.timeout
              /\ call.page.spellDataAt # None /\ call.page.spellDataAt.val < call.timeout

C19_Witness ==
    /\ Called("wait_for_js_data")
    /\ call.page.spellListAt = None /\ call.page.spellDataAt = None
    /\ ~call.page.crash
    /\ result.val = [raised |-> FALSE, value |-> FALSE,
                     log |-> {"Timeout waiting for JavaScript data to load"}]

\* The steps of _scrape_with_browser between the page load and the extraction.
ReadinessLabels ==
    {"browser_consent", "browser_scripts", "browser_human", "browser_netidle",
     "browser_wait_js", "browser_force", "browser_wait_js2"}

\* C20: once the page has loaded, every readiness step of _scrape_with_browser,
\* whatever its outcome, is followed by another readiness step or by the call of
\* extract_spell_data.
C20_ExtractAlwaysInvoked ==
    [][(scraper = "spell" /\ pc \in ReadinessLabels)
            => pc' \in ReadinessLabels \cup {"browser_extract"}]_vars

\* How many calls of kind op completed.
Done(op) == Cardinality({i \in 1..Len(result.val.done) : result.val.done[i] = op})

\* C21: simulate_human_behavior does not raise, whichever of its calls fail and
\* whatever the viewport; with a known viewport and no failing call it has done
\* all its scrolls and pointer moves and a pause after each, and the final pause.
C21_HumanBehaviorNeverRaises ==
    Called("simulate_human_behavior") =>
        /\ ~result.val.raised
        /\ (call.page.viewport = "normal"
                /\ \A i \in 1..Len(HumanPlan(call.page)) : i \notin call.page.fails)
                => /\ Done("scroll") = ScrollRounds
                   /\ Done("move") = MoveRounds
                   /\ Done("pause") >= ScrollRounds + MoveRounds + 1
                   /\ result.val.log = {"Human behavior simulation completed"}

C21_Witness ==
    /\ Called("simulate_human_behavior")
    /\ call.page.viewport = "none"
    /\ 1 \in call.page.fails
    /\ ~result.val.raised
    /\ result.val.done = <<>>
    /\ result.val.log = {"Error simulating human behavior"}

\* C27: when simulate_human_behavior has returned, the filter button was clicked
\* zero times or twice.
C27_FilterReverted ==
    Called("simulate_human_behavior") => Done("click") \in {0, 2}

\* The accept selectors that match under the lookup target of the call.
Matching == TargetMatches(call.page, result.val.target)

FirstMatch == CHOOSE i \in Matching : \A j \in Matching : i <= j

\* C22: handle_cookie_consent does not raise; when no accept selector matches
\* it clicks nothing; when one matches, the selectors were tried in order up
\* to the first matching one and no further, and that one was clicked, once.
C22_FirstMatchClickedOnce ==
    Called("handle_cookie_consent") =>
        /\ ~result.val.raised
        /\ Matching = {} => result.val.clicks = <<>>
        /\ Matching # {} =>
                /\ result.val.clicks = <<FirstMatch>>
                /\ result.val.tried = [i \in 1..FirstMatch |-> i]

\* C28: the accept controls are looked up in the main document when the
\* document has no consent frame, and in a frame only when the document has
\* that frame.
C28_MainDocumentWithoutFrame ==
    Called("handle_cookie_consent") =>
        /\ call.page.frame = 0 => result.val.target = MainPage
        /\ result.val.target.kind = "frame" => result.val.target.selector = call.page.frame

\* The positions of _scrape_with_browser from page.goto to extract_spell_data.
PageLabels ==
    {"browser_goto", "browser_consent", "browser_scripts", "browser_human",
     "browser_netidle", "browser_wait_js", "browser_force", "browser_wait_js2",
     "browser_extract"}

LoadFailed(l) == "Failed to load page" \in l \/ "Error during page load" \in l

\* C23: in the browser attempt, page.goto is followed by handle_cookie_consent
\* when the load succeeded and by the return of [] when it failed;
\* handle_cookie_consent, wait_for_critical_scripts and simulate_human_behavior
\* are called in that order, each entered only from the one before;
\* extract_spell_data is called only after them; and no position of the
\* attempt is entered a second time.
C23_ReadinessStepsOnceInOrder ==
    [][scraper = "spell" =>
        /\ pc = "browser_goto" =>
                \/ pc' = "browser_consent" /\ ~LoadFailed(log')
                \/ pc' = "scrape_check" /\ LoadFailed(log') /\ returned'["browser"] = Some(<<>>)
        /\ pc' = "browser_consent" => pc = "browser_goto" /\ ~LoadFailed(log')
        /\ pc = "browser_consent" => pc' = "browser_scripts"
        /\ pc' = "browser_scripts" => pc = "browser_consent"
        /\ pc = "browser_scripts" => pc' = "browser_human"
        /\ pc' = "browser_human" => pc = "browser_scripts"
        /\ pc = "browser_human" => pc' = "browser_netidle"
        /\ pc' = "browser_extract" => pc \in {"browser_wait_js", "browser_wait_js2"}
        /\ pc \in PageLabels => Position(pc') > Position(pc)]_vars

C23_Witness ==
    /\ scraper = "spell"
    /\ pc = "browser_extract"
    /\ ~LoadFailed(log)
    /\ "browser" \in launched

\* C24: when the DOM tier answers, extract_spell_data returns one record per
\* row of the page, in the order of the rows: each field of the record is the
\* empty string when the row has no such sub-element, and the trimmed text
\* of the sub-element (for school, the part of its class after '_') otherwise.
C24_DomRowsKept ==
    (Called("extract_spell_data") /\ call.page.evaluate = "ok"
            /\ PrimaryTier = <<>> /\ DomTier # <<>>) =>
        /\ Len(result.val.value) = Len(DomTier)
        /\ \A i \in 1..Len(DomTier) : \A f \in RowFields :
              LET sub == DomTier[i][f]
                  got == result.val.value[i][f]
              IN  /\ sub = None => got = <<>>
                  /\ (sub # None /\ f # "school") =>
                        /\ got # <<>> => (got[1] # " " /\ got[Len(got)] # " ")
                        /\ \E a, b \in 0..Len(sub.val) :
                              sub.val = [k \in 1..a |-> " "] \o got \o [k \in 1..b |-> " "]
                  /\ (sub # None /\ f = "school") =>
                        got = IF Len(sub.val) >= 2 THEN <<sub.val[2]>> ELSE <<>>

C24_Witness ==
    /\ Called("extract_spell_data")
    /\ call.page.evaluate = "ok"
    /\ PrimaryTier = <<>>
    /\ Len(DomTier) = 2
    /\ DomTier[1] = Without(FullRow(1), RowFields)
    /\ DomTier[2] = FullRow(2)
    /\ result.val.value[1].name = <<>>
    /\ result.val.value[2].name = <<SpellNames[2]>>

\* C25: extract_spell_data returns the sequence its in-page evaluation gave,
\* unchanged; a non-empty sequence is returned after that one evaluation, with
\* no probe; an empty one is followed by the probe, and whatever the probe
\* answers the returned sequence is empty.
C25_ProbeChangesNothing ==
    (Called("extract_spell_data") /\ call.page.evaluate = "ok") =>
        LET inPage == IF PrimaryTier # <<>> THEN MapSpells(PrimaryTier) ELSE MapRows(DomTier)
        IN  /\ result.val.value = inPage
            /\ inPage # <<>> => ~result.val.probed
            /\ inPage = <<>> => (result.val.probed /\ result.val.value = <<>>)

C25_Witness ==
    /\ Called("extract_spell_data")
    /\ call.page.evaluate = "ok"
    /\ PrimaryTier = <<>> /\ DomTier = <<>>
    /\ call.page.probe = "global"
    /\ result.val.probed
    /\ result.val.value = <<>>
    /\ "Found potential JSON data sources" \in result.val.log

\* C26: when SpellScraper.wait_for_critical_scripts has made its one-shot check
\* of the globals, it calls the combined wait for jQuery, Parser and Utils iff
\* one of the three was found undefined.
C26_CombinedWaitWhenAnyMissing ==
    (Called("wait_for_critical_scripts") /\ call.cls = "spell"
            /\ call.page.load /\ call.page.objects # None /\ call.page.shot) =>
        (result.val.waited <=> call.page.objects.val # JsObjects)

\* SCRAPING_SPELL_LIMIT is set to something that is not all digits.
NonDigitEnv == limit_str # None /\ ~IsDigit(limit_str.val)

ZeroLimit == limit # None /\ limit.val = 0

NonEmptyOutput == Producer # None /\ Producer.val # <<>>

Handlers(name, kind) ==
    Cardinality({i \in 1..Len(loggers[name].val.handlers) :
                    loggers[name].val.handlers[i].kind = kind})

\* C30: every logger that setup_logger has returned, however often and with
\* whatever subfolders, carries one file handler, for its own log file, and one
\* console handler, and nothing else.
C30_OneHandlerPair ==
    \A name \in LoggerNames :
        setups[name] > 0 =>
            /\ loggers[name] # None
            /\ Len(loggers[name].val.handlers) = 2
            /\ Handlers(name, "file") = 1
            /\ Handlers(name, "console") = 1
            /\ \A i \in 1..2 : loggers[name].val.handlers[i].kind = "file"
                    => loggers[name].val.handlers[i].name = name

C30_Witness ==
    /\ setups["spell"] = MaxSetups
    /\ setups["bestiary"] = 1
    /\ Handlers("spell", "file") = 1
    /\ Handlers("spell", "console") = 1
    /\ {"logs", "data-extraction"} \subseteq logDirs
====
